---- MODULE Spec2Model ----
(***************************************************************************)
(* A model of the traversal algorithms of the bidivec crate:               *)
(*   - algorithms/pathfinding.rs : pathfind_core and its three entry       *)
(*     points (pathfind_to_dest, pathfind_to_dest_heuristic,               *)
(*     pathfind_to_whole);                                                 *)
(*   - algorithms/editing.rs     : flood_fill;                             *)
(*   - areas/neighbours.rs       : BidiNeighbours::generate_points_on;     *)
(*   - areas/bidirect.rs         : BidiRect::contains.                     *)
(* Option<T> is modelled as a sequence: None is <<>> and Some(v) is <<v>>. *)
(* A coordinate (x, y) is the tuple <<x, y>>.                              *)
(***************************************************************************)
EXTENDS Integers, Sequences, FiniteSets, Bags, TLC

\* ------------------------------------------------------------------ bounds
\* Largest number of cells (width * height) of a grid.
MaxCells == 4
\* Largest cost of entering a cell ("enter" cost closure).
MaxCost == 1
\* Largest height of a cell ("climb" cost closure, flood_fill grids).
MaxHeight == 2
\* Longest side (width or height) of a grid.
MaxSide == 3
\* Longest side of a grid searched with a caller-supplied heuristic.
MaxSideH == 2
\* The overestimate a caller-supplied heuristic may return.
MaxHeur == 3

\* Width in bits of the unsigned cost type whose range the sums are held against.
CostBits == 2

\* The byte b'#' that the examples' cost closures treat as a wall.
Wall == 35

Abs(i) == IF i < 0 THEN -i ELSE i
Min(S) == CHOOSE m \in S : \A o \in S : m <= o

\* ------------------------------------------------------------ Option<T>
None == <<>>
Some(v) == <<v>>
IsSome(o) == o /= None
Unwrap(o) == o[1]

\* ---------------------------------------------------------------- state
VARIABLES
    width, height,   \* view.width(), view.height()
    view,            \* the grid: [cell -> value]
    start,           \* start: (usize, usize)
    dest,            \* dest: Option<(usize, usize)>
    neighbouring,    \* BidiNeighbours: "Adjacent" or "Bordering"
    mode,            \* entry point: "dest", "heuristic" or "whole"
    costKind,        \* which closure is passed as cost_func: "enter", "unit", "climb"
                     \* or "reject"
    heur,            \* values the heuristic closure returned so far: [cell -> Option<C>]
    pc,              \* position in pathfind_core
    adiacent,        \* the BinaryHeap<Adjacency<C>>, as a bag
    allocated,       \* TRUE once `data` (PathFindData) has been built
    tiles,           \* data.tiles
    result,          \* data.result
    ret,             \* what the call returned: None, <<"Ok">> or <<"Err", "OutOfBounds">>
    costCalled,      \* TRUE once cost_func has been called
    pos,             \* `pos` of the path reconstruction loop
    prev,            \* result of the previous call of the example's main
    ref,             \* not program state: the least path costs of the call's
                     \* inputs, [min |-> from start, rem |-> to the destination]
    \* ---- a call of editing::flood_fill
    fwidth, fheight, \* dest.width(), dest.height()
    fdest,           \* the grid `dest: &mut V`: [cell -> value]
    fpos,            \* pos: (usize, usize), the seed
    fneigh,          \* neighbouring
    comparer,        \* which closure is passed as comparer
    fpc,             \* position in flood_fill
    queue,           \* the VecDeque of discovered cells
    visited,         \* [cell -> "Unvisited" | "Border" | "Paint"]
    cursor,          \* cells the painting loop has gone past
    painted,         \* the coordinates the painter was called with, in call order
    fret,            \* what the call returned: None, <<"Ok", n>> or <<"Err", "OutOfBounds">>
    orig,            \* not program state: the grid as it was when flood_fill was called
    compared,        \* not program state: the comparer has been called
    enqueued,        \* not program state: every cell pushed on the queue, in push order
    dequeued,        \* not program state: how many cells were popped from the queue
    lateCompare,     \* not program state: the comparer was called after the painter,
                     \* or on a value that is not the cell's original value
    \* ---- a call of one of the crate's other functions
    call,            \* the function called
    args,            \* its arguments, a record
    output           \* what it returned or left behind: None before it has run

pathVars == <<width, height, view, start, dest, neighbouring, mode, costKind, heur, pc,
              adiacent, allocated, tiles, result, ret, costCalled, pos, prev, ref>>
floodVars == <<fwidth, fheight, fdest, fpos, fneigh, comparer, fpc, queue, visited,
               cursor, painted, fret, orig, compared, enqueued, dequeued, lateCompare>>
callVars == <<call, args, output>>
vars == <<pathVars, floodVars, callVars>>

\* --------------------------------------------------------------- the grid
Dims == {d \in (1..MaxSide) \X (1..MaxSide) : d[1] * d[2] <= MaxCells}
CellsOf(w, h) == (0..(w - 1)) \X (0..(h - 1))
Cells == CellsOf(width, height)
\* Coordinates a caller may pass: the cells and one column / one row beyond.
Coords(w, h) == CellsOf(w, h) \cup {<<w, 0>>, <<0, h>>}
Values == (0..MaxCost) \cup {Wall}
Heights == 0..MaxHeight

\* BidiRect::contains for the bounding rect (x = 0, y = 0, width, height).
ContainsInclusive(w, h, x, y) == x >= 0 /\ x <= 0 + w /\ y >= 0 /\ y <= 0 + h
Contains(w, h, x, y) == x >= 0 /\ x < 0 + w /\ y >= 0 /\ y < 0 + h

\* BidiNeighbours::generate_points_on: the points pushed on `v`, in push order.
Opt(c, p) == IF c THEN <<p>> ELSE <<>>
\* (mutant: east and south clipped one cell too early)
GeneratePointsOnShort(nb, p, w, h) ==
    LET x == p[1]
        y == p[2]
        go_n == y > 0
        go_w == x > 0
        go_e == x + 2 < w
        go_s == y + 2 < h
    IN  IF nb = "Adjacent"
        THEN Opt(go_w, <<x - 1, y>>) \o Opt(go_s, <<x, y + 1>>)
             \o Opt(go_e, <<x + 1, y>>) \o Opt(go_n, <<x, y - 1>>)
        ELSE Opt(go_n /\ go_w, <<x - 1, y - 1>>) \o Opt(go_w, <<x - 1, y>>)
             \o Opt(go_s /\ go_w, <<x - 1, y + 1>>) \o Opt(go_s, <<x, y + 1>>)
             \o Opt(go_s /\ go_e, <<x + 1, y + 1>>) \o Opt(go_e, <<x + 1, y>>)
             \o Opt(go_n /\ go_e, <<x + 1, y - 1>>) \o Opt(go_n, <<x, y - 1>>)
\* (mutant: a diagonal is taken when either of its two directions is open)
GeneratePointsOnLooseDiagonals(nb, p, w, h) ==
    LET x == p[1]
        y == p[2]
        go_n == y > 0
        go_w == x > 0
        go_e == x < w - 1
        go_s == y < h - 1
    IN  IF nb = "Adjacent"
        THEN Opt(go_w, <<x - 1, y>>) \o Opt(go_s, <<x, y + 1>>)
             \o Opt(go_e, <<x + 1, y>>) \o Opt(go_n, <<x, y - 1>>)
        ELSE Opt(go_n \/ go_w, <<x - 1, y - 1>>) \o Opt(go_w, <<x - 1, y>>)
             \o Opt(go_s \/ go_w, <<x - 1, y + 1>>) \o Opt(go_s, <<x, y + 1>>)
             \o Opt(go_s \/ go_e, <<x + 1, y + 1>>) \o Opt(go_e, <<x + 1, y>>)
             \o Opt(go_n \/ go_e, <<x + 1, y - 1>>) \o Opt(go_n, <<x, y - 1>>)
GeneratePointsOn(nb, p, w, h) ==
    LET x == p[1]
        y == p[2]
        go_n == y > 0
        go_w == x > 0
        go_e == x < w - 1
        go_s == y < h - 1
    IN  IF nb = "Adjacent"
        THEN Opt(go_w, <<x - 1, y>>) \o Opt(go_s, <<x, y + 1>>)
             \o Opt(go_e, <<x + 1, y>>) \o Opt(go_n, <<x, y - 1>>)
        ELSE Opt(go_n /\ go_w, <<x - 1, y - 1>>) \o Opt(go_w, <<x - 1, y>>)
             \o Opt(go_s /\ go_w, <<x - 1, y + 1>>) \o Opt(go_s, <<x, y + 1>>)
             \o Opt(go_s /\ go_e, <<x + 1, y + 1>>) \o Opt(go_e, <<x + 1, y>>)
             \o Opt(go_n /\ go_e, <<x + 1, y - 1>>) \o Opt(go_n, <<x, y - 1>>)

\* The order in which `while let Some(n) = neighbours.pop()` visits the points.
Reverse(s) == [i \in 1..Len(s) |-> s[Len(s) + 1 - i]]
PopOrder(nb, p, w, h) == Reverse(GeneratePointsOn(nb, p, w, h))

\* ------------------------------------------------------------ cost model
\* PathFindCost::normalize for the unsigned integer types (the default method).
Normalize(c) == Some(c)

\* A floating point value (f32 or f64): its FpCategory, its sign bit and, for a
\* finite non-zero value, its magnitude.
PosZero == [category |-> "Zero", negative |-> FALSE, mag |-> 0]
Classify(v) == v.category
IsSignNegative(v) == v.negative
\* PathFindCost::normalize for f32 and f64.
\* (mutant: zero is not handled apart, so negative zero counts as negative)
NormalizeFloatNoZeroCase(v) ==
    IF Classify(v) \in {"Infinite", "Nan"} THEN None
    ELSE IF IsSignNegative(v) THEN None
    ELSE Some(v)
NormalizeFloat(v) ==
    IF Classify(v) \in {"Infinite", "Nan"} THEN None
    ELSE IF Classify(v) = "Zero" THEN Some(PosZero)
    ELSE IF IsSignNegative(v) THEN None
    ELSE Some(v)

\* The finite float of integer value i, and the integer a non-negative finite
\* float stands for: the search adds and compares such costs as it does integers.
FloatOf(i) ==
    [category |-> IF i = 0 THEN "Zero" ELSE "Normal", negative |-> i < 0, mag |-> Abs(i)]
CostOf(v) == IF v.negative THEN 0 - v.mag ELSE v.mag

\* The closure passed as cost_func, fn(from, from_pos, to, to_pos) -> Option<C>.
\* "enter" is the closure of the examples (a wall cannot be entered), with the
\* cost of entering a cell being the cell's value instead of the constant 1;
\* "climb" charges the square of the difference of the two cells' values;
\* "unit" is the closure of the documentation (entering any other cell costs 1);
\* "reject" is "enter" with a float cost type, answering for a wall not None
\* but a value that normalize rejects: NaN, -1.0 or +infinity, by position.
CostFuncOf(kind, from, fromPos, to, toPos) ==
    IF kind = "reject"
    THEN IF to /= Wall THEN Some(FloatOf(to))
         ELSE IF toPos[1] = 0
              THEN Some([category |-> "Nan", negative |-> FALSE, mag |-> 0])
         ELSE IF toPos[2] = 0 THEN Some(FloatOf(0 - 1))
         ELSE Some([category |-> "Infinite", negative |-> FALSE, mag |-> 0])
    ELSE IF to = Wall THEN None
    ELSE IF kind = "unit" THEN Some(1)
    ELSE IF kind = "enter" THEN Some(to)
    ELSE IF from = Wall THEN None
    ELSE Some((to - from) * (to - from))
CostFunc(from, fromPos, to, toPos) == CostFuncOf(costKind, from, fromPos, to, toPos)

\* c.normalize() for the cost type C of the closure: a float for "reject", an
\* unsigned integer otherwise.
NormalizeOf(kind, c) ==
    IF kind = "reject"
    THEN IF NormalizeFloat(c) = None THEN None ELSE Some(CostOf(Unwrap(NormalizeFloat(c))))
    ELSE Normalize(c)

\* `match cost_func(..) { None => None, Some(c) => c.normalize() }`
\* (mutant: the value is used as it is, normalize is not called)
EdgeCostNotNormalized(kind, p, n) ==
    LET c == CostFuncOf(kind, view[p], p, view[n], n)
    IN  IF c = None THEN None
        ELSE IF kind = "reject" THEN Some(CostOf(Unwrap(c)))
        ELSE Some(Unwrap(c))
EdgeCostOf(kind, p, n) ==
    LET c == CostFuncOf(kind, view[p], p, view[n], n)
    IN  IF c = None THEN None ELSE NormalizeOf(kind, Unwrap(c))
EdgeCost(p, n) == EdgeCostOf(costKind, p, n)

\* PathFindDataTile::default()
DefaultTile == [origin |-> None, cost |-> None, in_shortest_path |-> FALSE]

\* Adjacency::cmp reverses the order of estimated_cost, so the max-heap pops
\* an entry of least estimated_cost; which one among equals is up to the heap.
\* (mutant: the order not reversed, the heap pops a greatest estimated_cost)
PopCandidatesGreatest(q) ==
    {e \in BagToSet(q) : \A o \in BagToSet(q) : e.estimated_cost >= o.estimated_cost}
PopCandidates(q) ==
    {e \in BagToSet(q) : \A o \in BagToSet(q) : e.estimated_cost <= o.estimated_cost}

\* (mutant: an entry of equal cost is not stale)
IsStaleOnlyIfDearer(adjacency, tile) ==
    IsSome(tile.cost) /\ adjacency.actual_cost > Unwrap(tile.cost)
\* `if let Some(cost) = cur_tile.cost { if adjacency.actual_cost >= cost { continue } }`
IsStale(adjacency, tile) ==
    IsSome(tile.cost) /\ adjacency.actual_cost >= Unwrap(tile.cost)

\* `cur_tile.origin = Some(adjacency.origin); cur_tile.cost = Some(adjacency.actual_cost);`
\* (mutant: a tile that already has an origin keeps it)
FinalizeKeepsOrigin(tile, adjacency) ==
    [tile EXCEPT !.origin = IF tile.origin = None THEN Some(adjacency.origin) ELSE @,
                 !.cost = Some(adjacency.actual_cost)]
\* (mutant: the cost is not recorded)
FinalizeForgetsCost(tile, adjacency) ==
    [tile EXCEPT !.origin = Some(adjacency.origin)]
Finalize(tile, adjacency) ==
    [tile EXCEPT !.origin = Some(adjacency.origin),
                 !.cost = Some(adjacency.actual_cost)]

\* `match data.tiles[neighbour].cost { None => true, Some(old_cost) => cost < old_cost }`
\* (mutant: None => false)
ShouldPushRecordedOnly(cost, tile) ==
    IF tile.cost = None THEN FALSE ELSE cost < Unwrap(tile.cost)
ShouldPush(cost, tile) ==
    IF tile.cost = None THEN TRUE ELSE cost < Unwrap(tile.cost)

\* The Adjacency pushed for `neighbour` while expanding `p` at cost cur_cost.
\* (mutant: the estimate leaves out the cost so far)
NewAdjacencyEstimateFromEdge(p, cur_cost, neighbour, cost, h) ==
    [estimated_cost |-> IF IsSome(dest) THEN cost + h ELSE cur_cost + cost,
     actual_cost |-> cur_cost + cost,
     position |-> neighbour,
     origin |-> p]
\* (mutant: the cost of the edge alone, not added to the cost so far)
NewAdjacencyEdgeOnly(p, cur_cost, neighbour, cost, h) ==
    [estimated_cost |-> IF IsSome(dest) THEN cost + h ELSE cost,
     actual_cost |-> cost,
     position |-> neighbour,
     origin |-> p]
\* (mutant: the edge cost is added twice)
NewAdjacencyEdgeTwice(p, cur_cost, neighbour, cost, h) ==
    [estimated_cost |-> IF IsSome(dest) THEN cur_cost + cost + cost + h
                                        ELSE cur_cost + cost + cost,
     actual_cost |-> cur_cost + cost + cost,
     position |-> neighbour,
     origin |-> p]
NewAdjacency(p, cur_cost, neighbour, cost, h) ==
    [estimated_cost |-> IF IsSome(dest) THEN cur_cost + cost + h ELSE cur_cost + cost,
     actual_cost |-> cur_cost + cost,
     position |-> neighbour,
     origin |-> p]

\* The points the inner loop `while let Some(neighbour) = neighbours.pop()` visits.
Range(s) == {s[i] : i \in 1..Len(s)}
Visited(p) == Range(PopOrder(neighbouring, p, width, height))

\* The neighbours of p for which the inner loop pushes an entry, given data.tiles.
Pushed(p, t) ==
    {n \in Visited(p) :
        /\ IsSome(EdgeCost(p, n))
        /\ ShouldPush(Unwrap(EdgeCost(p, n)), t[n])}

\* What the heuristic closure of the call may return: C::default() for
\* pathfind_to_dest and pathfind_to_whole (|_, _| C::default()); for the A* entry
\* point the caller's closure, which answers an exact-looking 0 or the
\* estimate MaxHeur.
HeuristicValues == IF mode = "heuristic" THEN {0, MaxHeur} ELSE {0}

\* The Ok and Err values a call returns.
Ok == <<"Ok">>
ErrOutOfBounds == <<"Err", "OutOfBounds">>

PathNotFound == <<"PathNotFound">>
MultipleDestinations == <<"MultipleDestinations">>
ShortestPathFound(c) == <<"ShortestPathFound", c>>
IsFound(r) == r /= None /\ r[1] = "ShortestPathFound"

\* ------------------------------------------------------------ reference
\* Reference notions, defined without the code's neighbour generation, heap
\* or tiles.

\* b is one step from a: orthogonally (Adjacent), or also diagonally (Bordering).
IsNeighbour(nb, a, b) ==
    /\ a /= b
    /\ Abs(a[1] - b[1]) <= 1
    /\ Abs(a[2] - b[2]) <= 1
    /\ nb = "Adjacent" => (a[1] = b[1] \/ a[2] = b[2])

\* The cost closure allows the move from cell a to its neighbour b.
\* For "reject" the reference is the closure that returns None where "reject"
\* returns a value normalize rejects, which is "enter".
RefKind == IF costKind = "reject" THEN "enter" ELSE costKind
HasEdge(a, b) ==
    IsNeighbour(neighbouring, a, b)
    /\ IsSome(CostFuncOf(RefKind, view[a], a, view[b], b))
EdgeW(a, b) == Unwrap(CostFuncOf(RefKind, view[a], a, view[b], b))

InBounds(c) == c \in Cells
OutOfBoundsCall == ~InBounds(start) \/ (IsSome(dest) /\ ~InBounds(Unwrap(dest)))

\* Least total edge cost of a path, by Bellman-Ford relaxation.  D is a set of
\* pairs <<cell, least cost known so far>>, at most one pair per cell.  With
\* fwd the costs are from the source to each cell, otherwise from each cell to
\* the source.
RelaxOnce(D, fwd) ==
    LET Cands(c) ==
            {p[2] : p \in {q \in D : q[1] = c}}
            \cup {p[2] + (IF fwd THEN EdgeW(p[1], c) ELSE EdgeW(c, p[1])) :
                    p \in {q \in D : IF fwd THEN HasEdge(q[1], c) ELSE HasEdge(c, q[1])}}
    IN  {<<c, Min(Cands(c))>> : c \in {c \in Cells : Cands(c) /= {}}}
RECURSIVE Relax(_, _, _)
Relax(D, fwd, k) ==
    IF k = 0 THEN D
    ELSE UNION {Relax(next, fwd, k - 1) : next \in {RelaxOnce(D, fwd)}}
CostIn(D, c) ==
    IF \E p \in D : p[1] = c THEN Some((CHOOSE p \in D : p[1] = c)[2]) ELSE None
\* The reference costs of a call: the least cost of a path from start to each
\* cell, and from each cell to the destination (when there is one).
Reference ==
    IF OutOfBoundsCall THEN [min |-> {}, rem |-> {}]
    ELSE [min |-> Relax({<<start, 0>>}, TRUE, Cardinality(Cells)),
          rem |-> IF IsSome(dest)
                  THEN Relax({<<Unwrap(dest), 0>>}, FALSE, Cardinality(Cells))
                  ELSE {}]
MinCosts == ref.min
RemCosts == ref.rem


\* No flood_fill call is modelled: its variables stay at these values.
FloodIdle ==
    /\ fwidth = 0 /\ fheight = 0 /\ fdest = <<>> /\ fpos = <<0, 0>>
    /\ fneigh = "Adjacent" /\ comparer = "same" /\ fpc = "idle" /\ queue = <<>>
    /\ visited = <<>> /\ cursor = 0 /\ painted = <<>> /\ fret = None
    /\ orig = <<>> /\ lateCompare = FALSE
    /\ compared = FALSE /\ enqueued = <<>> /\ dequeued = 0

\* No other function is called: its variables stay at these values.
CallIdle == call = "idle" /\ args = <<>> /\ output = <<>>

\* No search is modelled: its variables stay at these values.
PathIdle ==
    /\ width = 0 /\ height = 0 /\ view = <<>> /\ start = <<0, 0>> /\ dest = None
    /\ neighbouring = "Adjacent" /\ mode = "idle" /\ costKind = "enter"
    /\ heur = <<>> /\ pc = "idle" /\ adiacent = EmptyBag /\ allocated = FALSE
    /\ tiles = <<>> /\ result = None /\ ret = None /\ costCalled = FALSE
    /\ pos = None /\ prev = None /\ ref = <<>>

\* ------------------------------------------------------- pathfind_core
\* State of a call that has not started: nothing allocated, nothing returned.
Fresh ==
    /\ heur = [c \in Cells |-> None]
    /\ pc = "start"
    /\ adiacent = EmptyBag
    /\ allocated = FALSE
    /\ tiles = [c \in Cells |-> DefaultTile]
    /\ result = None
    /\ ret = None
    /\ costCalled = FALSE
    /\ pos = None

\* A call of pathfind_to_dest, pathfind_to_dest_heuristic or pathfind_to_whole
\* on some grid, with the examples' cost closure.
PathInit ==
    /\ \E d \in Dims : width = d[1] /\ height = d[2]
    /\ view \in [Cells -> Values]
    /\ start \in Coords(width, height)
    /\ neighbouring \in {"Adjacent", "Bordering"}
    /\ mode \in {"dest", "heuristic", "whole"}
    /\ costKind = "enter"
    /\ dest \in IF mode = "whole" THEN {None} ELSE {Some(c) : c \in Coords(width, height)}
    /\ prev = None
    /\ ref = Reference
    /\ Fresh
    /\ FloodIdle
    /\ CallIdle

\* examples/maze.rs main: pathfind_to_dest and then pathfind_to_dest_heuristic
\* on the same map, with S and D two cells of the map.
AStarInit ==
    /\ \E d \in Dims : d[1] <= MaxSideH /\ d[2] <= MaxSideH /\ width = d[1] /\ height = d[2]
    /\ view \in [Cells -> Heights \cup {Wall}]
    /\ start \in Cells
    /\ neighbouring \in {"Adjacent", "Bordering"}
    /\ mode = "dest"
    /\ costKind = "climb"
    /\ dest \in {Some(c) : c \in Cells}
    /\ prev = None
    /\ ref = Reference
    /\ Fresh
    /\ FloodIdle
    /\ CallIdle

\* A call of pathfind_to_dest or pathfind_to_whole with a float cost type and
\* the closure that answers a rejected value for a wall.
RejectInit ==
    /\ \E d \in Dims : width = d[1] /\ height = d[2]
    /\ view \in [Cells -> Values]
    /\ start \in Cells
    /\ neighbouring \in {"Adjacent", "Bordering"}
    /\ mode \in {"dest", "whole"}
    /\ costKind = "reject"
    /\ dest \in IF mode = "whole" THEN {None} ELSE {Some(c) : c \in Cells}
    /\ prev = None
    /\ ref = Reference
    /\ Fresh
    /\ FloodIdle
    /\ CallIdle

\* The example of the module documentation: `const WIDTH: usize = 9` and the
\* bytes of DATA, row by row (35 is '#', 32 ' ', 83 'S', 68 'D').  In the
\* documentation test a line that starts with "##" stands for a line that
\* starts with "#", and the spaces that follow a line continuation are skipped:
\* each row has 9 bytes.
DocWidth == 9
DocData ==
    <<<<35, 35, 35, 35, 35, 35, 35, 35, 35>>,
      <<35, 32, 32, 83, 35, 32, 32, 32, 35>>,
      <<35, 32, 35, 35, 35, 32, 35, 32, 35>>,
      <<35, 32, 32, 32, 32, 32, 35, 32, 35>>,
      <<35, 32, 35, 35, 35, 32, 35, 32, 35>>,
      <<35, 32, 32, 32, 35, 32, 35, 68, 35>>,
      <<35, 35, 35, 35, 35, 35, 35, 35, 35>>>>
DocHeight == Len(DocData)
\* find_map(|(x, y, t)| if *t == b'S' ...): the cell holding the byte.
DocFind(byte) ==
    CHOOSE c \in CellsOf(DocWidth, DocHeight) : DocData[c[2] + 1][c[1] + 1] = byte

\* main of the documentation example: pathfind_to_dest from S to D on the map.
DocInit ==
    /\ width = DocWidth /\ height = DocHeight
    /\ view = [c \in Cells |-> DocData[c[2] + 1][c[1] + 1]]
    /\ start = DocFind(83)
    /\ dest = Some(DocFind(68))
    /\ neighbouring = "Adjacent"
    /\ mode = "dest"
    /\ costKind = "unit"
    /\ prev = None
    /\ ref = [min |-> {}, rem |-> {}]
    /\ Fresh
    /\ FloodIdle
    /\ CallIdle

\* Lines 284-313: the bounds checks, then the heap, the result table and the seed.
Begin ==
    /\ UNCHANGED <<floodVars, callVars>>
    /\ pc = "start"
    /\ IF \/ ~Contains(width, height, start[1], start[2])
          \/ IsSome(dest) /\ ~Contains(width, height, Unwrap(dest)[1], Unwrap(dest)[2])
       THEN /\ ret' = ErrOutOfBounds
            /\ pc' = "err"
            /\ UNCHANGED <<adiacent, allocated, tiles, result>>
       ELSE /\ allocated' = TRUE
            /\ result' = IF IsSome(dest) THEN PathNotFound ELSE MultipleDestinations
            /\ tiles' = [c \in Cells |-> DefaultTile]
            /\ adiacent' = SetToBag({[estimated_cost |-> 0, actual_cost |-> 0,
                                      position |-> start, origin |-> start]})
            /\ pc' = "loop"
            /\ UNCHANGED ret
    /\ UNCHANGED <<width, height, view, start, dest, neighbouring, mode, costKind, heur,
                   costCalled, pos, prev, ref>>

\* (mutant: the destination is never recognised)
IsDestNever(p) == FALSE
\* `if let Some(dest) = dest { if adjacency.position == dest { .. break; } }`
IsDest(p) == IsSome(dest) /\ p = Unwrap(dest)

\* Lines 315-372: one iteration of `while let Some(adjacency) = adiacent.pop()`.
PopStep ==
    /\ UNCHANGED <<floodVars, callVars>>
    /\ pc = "loop"
    /\ BagToSet(adiacent) /= {}
    /\ \E adjacency \in PopCandidates(adiacent) :
        LET rest == adiacent (-) SetToBag({adjacency})
            p == adjacency.position
            cur_cost == adjacency.actual_cost
            t1 == [tiles EXCEPT ![p] = Finalize(@, adjacency)]
        IN  IF IsStale(adjacency, tiles[p])
            THEN /\ adiacent' = rest
                 /\ UNCHANGED <<tiles, result, pc, heur, costCalled, pos>>
            ELSE IF IsDest(p)
            THEN /\ adiacent' = rest
                 /\ tiles' = t1
                 /\ result' = ShortestPathFound(cur_cost)
                 /\ pc' = "break"
                 /\ UNCHANGED <<heur, costCalled, pos>>
            ELSE \E hs \in [Pushed(p, t1) -> HeuristicValues] :
                 /\ \A n \in Pushed(p, t1) : IsSome(heur[n]) => hs[n] = Unwrap(heur[n])
                 /\ heur' = IF IsSome(dest)
                            THEN [n \in Cells |-> IF n \in Pushed(p, t1)
                                                  THEN Normalize(hs[n]) ELSE heur[n]]
                            ELSE heur
                 /\ adiacent' = rest (+) SetToBag(
                        {NewAdjacency(p, cur_cost, n, Unwrap(EdgeCost(p, n)), hs[n]) :
                            n \in Pushed(p, t1)})
                 /\ tiles' = t1
                 /\ costCalled' = (costCalled \/ Visited(p) /= {})
                 /\ UNCHANGED <<result, pc, pos>>
    /\ UNCHANGED <<width, height, view, start, dest, neighbouring, mode, costKind,
                   allocated, ret, prev, ref>>

\* Lines 315 and 374-376: the loop is left (the heap is empty, or `break`), and
\* the reconstruction starts at dest when a path was found.
ExitLoop ==
    /\ UNCHANGED <<floodVars, callVars>>
    /\ \/ pc = "loop" /\ BagToSet(adiacent) = {}
       \/ pc = "break"
    /\ IF IsFound(result)
       THEN pos' = dest /\ pc' = "reconstruct" /\ UNCHANGED ret
       ELSE pos' = pos /\ pc' = "done" /\ ret' = Ok
    /\ UNCHANGED <<width, height, view, start, dest, neighbouring, mode, costKind, heur,
                   adiacent, allocated, tiles, result, costCalled, prev, ref>>

\* `if p == start { break; }`
\* (mutant: the walk stops one cell early, at the cell that start leads to)
AtStartOrNext(p) == p = start \/ tiles[p].origin = Some(start)
AtStart(p) == p = start

\* Lines 377-386: one iteration of `while let Some(p) = pos`, then Ok(data).
ReconstructStep ==
    /\ UNCHANGED <<floodVars, callVars>>
    /\ pc = "reconstruct"
    /\ IF pos = None
       THEN /\ pc' = "done" /\ ret' = Ok
            /\ UNCHANGED <<tiles, pos>>
       ELSE LET p == Unwrap(pos)
            IN  /\ tiles' = [tiles EXCEPT ![p].in_shortest_path = TRUE]
                /\ IF AtStart(p)
                   THEN pc' = "done" /\ ret' = Ok /\ pos' = pos
                   ELSE pc' = "reconstruct" /\ ret' = ret /\ pos' = tiles[p].origin
    /\ UNCHANGED <<width, height, view, start, dest, neighbouring, mode, costKind, heur,
                   adiacent, allocated, result, costCalled, prev, ref>>

\* examples/maze.rs main: after pathfind_to_dest returned Ok, the same map, start
\* and dest are searched again with pathfind_to_dest_heuristic.
CallHeuristic ==
    /\ UNCHANGED <<floodVars, callVars>>
    /\ pc = "done"
    /\ mode = "dest"
    /\ prev' = Some(result)
    /\ mode' = "heuristic"
    /\ heur' = [c \in Cells |-> None]
    /\ pc' = "start"
    /\ adiacent' = EmptyBag
    /\ allocated' = FALSE
    /\ tiles' = [c \in Cells |-> DefaultTile]
    /\ result' = None
    /\ ret' = None
    /\ costCalled' = FALSE
    /\ pos' = None
    /\ UNCHANGED <<width, height, view, start, dest, neighbouring, costKind, ref>>

PathNext == Begin \/ PopStep \/ ExitLoop \/ ReconstructStep

SpecPath == PathInit /\ [][PathNext]_vars

SpecReject == RejectInit /\ [][PathNext]_vars

SpecDoc == DocInit /\ [][PathNext]_vars

AStarNext == Begin \/ PopStep \/ ExitLoop \/ ReconstructStep \/ CallHeuristic

SpecAStar == AStarInit /\ [][AStarNext]_vars

\* ---------------------------------------------------------- flood_fill
FCells == CellsOf(fwidth, fheight)

\* The value the painter of the documentation example writes: |val, _| { *val = 5; }
PaintValue == 5
Painter(val, coord) == PaintValue

\* The closure passed as comparer, Fn(seed, current, neighbour) -> bool:
\* "same" is the documentation's |_, val1, val2| val1 == val2; "near" lets the
\* fill spread between values one apart; "nearSeed" to values one from the seed's.
Comparer(seed, cur, nb) ==
    IF comparer = "same" THEN cur = nb
    ELSE IF comparer = "near" THEN Abs(nb - cur) <= 1
    ELSE Abs(nb - seed) <= 1

\* Lines 296-305: what the inner loop does with one neighbour of `point`.
\* st is [queue, visited, grid, painted, enqueued, compared, late].
\* (mutant: only Paint cells are skipped, a Border cell is examined again)
ExamineRechecksBorder(st, point, neighbour) ==
    IF st.visited[neighbour] = "Paint" THEN st
    ELSE LET late == \/ st.late
                     \/ st.painted /= <<>>
                     \/ \E c \in {fpos, point, neighbour} : st.grid[c] /= orig[c]
         IN  IF Comparer(st.grid[fpos], st.grid[point], st.grid[neighbour])
             THEN [st EXCEPT !.queue = Append(@, neighbour),
                             !.visited[neighbour] = "Paint",
                             !.enqueued = Append(@, neighbour),
                             !.compared = TRUE,
                             !.late = late]
             ELSE [st EXCEPT !.visited[neighbour] = "Border",
                             !.compared = TRUE,
                             !.late = late]
\* (mutant: only Border cells are skipped, a Paint cell is examined again)
ExamineRechecksPaint(st, point, neighbour) ==
    IF st.visited[neighbour] = "Border" THEN st
    ELSE LET late == \/ st.late
                     \/ st.painted /= <<>>
                     \/ \E c \in {fpos, point, neighbour} : st.grid[c] /= orig[c]
         IN  IF Comparer(st.grid[fpos], st.grid[point], st.grid[neighbour])
             THEN [st EXCEPT !.queue = Append(@, neighbour),
                             !.visited[neighbour] = "Paint",
                             !.enqueued = Append(@, neighbour),
                             !.compared = TRUE,
                             !.late = late]
             ELSE [st EXCEPT !.visited[neighbour] = "Border",
                             !.compared = TRUE,
                             !.late = late]
\* (mutant: a cell is painted as soon as it is accepted)
ExaminePaintsAtOnce(st, point, neighbour) ==
    IF st.visited[neighbour] /= "Unvisited" THEN st
    ELSE LET late == \/ st.late
                     \/ st.painted /= <<>>
                     \/ \E c \in {fpos, point, neighbour} : st.grid[c] /= orig[c]
         IN  IF Comparer(st.grid[fpos], st.grid[point], st.grid[neighbour])
             THEN [st EXCEPT !.queue = Append(@, neighbour),
                             !.visited[neighbour] = "Paint",
                             !.grid[neighbour] = Painter(@, neighbour),
                             !.painted = Append(@, neighbour),
                             !.enqueued = Append(@, neighbour),
                             !.compared = TRUE,
                             !.late = late]
             ELSE [st EXCEPT !.visited[neighbour] = "Border",
                             !.compared = TRUE,
                             !.late = late]
Examine(st, point, neighbour) ==
    IF st.visited[neighbour] /= "Unvisited" THEN st
    ELSE LET late == \/ st.late
                     \/ st.painted /= <<>>
                     \/ \E c \in {fpos, point, neighbour} : st.grid[c] /= orig[c]
         IN  IF Comparer(st.grid[fpos], st.grid[point], st.grid[neighbour])
             THEN [st EXCEPT !.queue = Append(@, neighbour),
                             !.visited[neighbour] = "Paint",
                             !.enqueued = Append(@, neighbour),
                             !.compared = TRUE,
                             !.late = late]
             ELSE [st EXCEPT !.visited[neighbour] = "Border",
                             !.compared = TRUE,
                             !.late = late]

\* `while let Some(neighbour) = neighbours.pop()`: the neighbours in pop order.
RECURSIVE ExamineAll(_, _, _, _)
ExamineAll(st, point, order, i) ==
    IF i > Len(order) THEN st
    ELSE CHOOSE r \in {ExamineAll(next, point, order, i + 1) :
                           next \in {Examine(st, point, order[i])}} : TRUE

\* visited.iter().with_coords() goes through the cells row by row.
CellAt(i) == <<i % fwidth, i \div fwidth>>
\* visited.len()
VisitedLen == fwidth * fheight

\* The value flood_fill returns on success.
ReturnedCount == VisitedLen

\* The sizes of the grids flood_fill is called on: the empty grid too.
FDims == Dims \cup {<<0, 0>>}

\* `pos.0 >= dest.width() || pos.1 >= dest.height()`
\* (mutant: a seed one column or one row beyond the grid passes)
FloodOutOfBoundsLax(p, w, h) == p[1] > w \/ p[2] > h
FloodOutOfBounds(p, w, h) == p[1] >= w \/ p[2] >= h

\* A call of flood_fill on some grid.
FloodInit ==
    /\ \E d \in FDims : fwidth = d[1] /\ fheight = d[2]
    /\ fdest \in [FCells -> Heights]
    /\ fpos \in Coords(fwidth, fheight)
    /\ fneigh \in {"Adjacent", "Bordering"}
    /\ comparer \in {"same", "near", "nearSeed"}
    /\ fpc = "start"
    /\ queue = <<>>
    /\ visited = [c \in FCells |-> "Unvisited"]
    /\ cursor = 0
    /\ painted = <<>>
    /\ fret = None
    /\ orig = fdest
    /\ compared = FALSE
    /\ enqueued = <<>>
    /\ dequeued = 0
    /\ lateCompare = FALSE
    /\ PathIdle
    /\ CallIdle

\* Lines 277-289: the bounds check, then the visited table and the seed.
FloodBegin ==
    /\ fpc = "start"
    /\ IF FloodOutOfBounds(fpos, fwidth, fheight)
       THEN /\ fret' = ErrOutOfBounds
            /\ fpc' = "err"
            /\ UNCHANGED <<queue, visited, enqueued>>
       ELSE /\ visited' = [c \in FCells |-> IF c = fpos THEN "Paint" ELSE "Unvisited"]
            /\ queue' = <<fpos>>
            /\ enqueued' = <<fpos>>
            /\ fpc' = "discover"
            /\ UNCHANGED fret
    /\ UNCHANGED <<fwidth, fheight, fdest, fpos, fneigh, comparer, cursor, painted,
                   orig, compared, dequeued, lateCompare>>
    /\ UNCHANGED <<pathVars, callVars>>

\* Lines 291-307: one iteration of `while let Some(point) = queue.pop_front()`;
\* the loop is left when the queue is empty.
DiscoverStep ==
    /\ fpc = "discover"
    /\ queue /= <<>>
    /\ LET point == Head(queue)
           st == ExamineAll([queue |-> Tail(queue), visited |-> visited, grid |-> fdest,
                             painted |-> painted, enqueued |-> enqueued,
                             compared |-> compared, late |-> lateCompare],
                            point, PopOrder(fneigh, point, fwidth, fheight), 1)
       IN  /\ queue' = st.queue
           /\ visited' = st.visited
           /\ fdest' = st.grid
           /\ painted' = st.painted
           /\ lateCompare' = st.late
           /\ enqueued' = st.enqueued
           /\ compared' = st.compared
           /\ dequeued' = dequeued + 1
           /\ fpc' = IF st.queue = <<>> THEN "paint" ELSE "discover"
    /\ UNCHANGED <<fwidth, fheight, fpos, fneigh, comparer, cursor, fret, orig>>
    /\ UNCHANGED <<pathVars, callVars>>

\* Lines 309-315: the painting loop up to and including its next painter call,
\* and the return once no Paint cell is left.
PaintStep ==
    /\ fpc = "paint"
    /\ LET left == {i \in cursor..(VisitedLen - 1) : visited[CellAt(i)] = "Paint"}
       IN  IF left = {}
           THEN /\ fpc' = "done"
                /\ fret' = <<"Ok", ReturnedCount>>
                /\ cursor' = VisitedLen
                /\ UNCHANGED <<fdest, painted>>
           ELSE LET i == Min(left)
                IN  /\ fdest' = [fdest EXCEPT ![CellAt(i)] = Painter(@, CellAt(i))]
                    /\ painted' = Append(painted, CellAt(i))
                    /\ cursor' = i + 1
                    /\ UNCHANGED <<fpc, fret>>
    /\ UNCHANGED <<fwidth, fheight, fpos, fneigh, comparer, queue, visited, orig,
                   compared, enqueued, dequeued, lateCompare>>
    /\ UNCHANGED <<pathVars, callVars>>

FloodNext == FloodBegin \/ DiscoverStep \/ PaintStep

SpecFlood == FloodInit /\ [][FloodNext]_vars

\* flood_fill runs to its return: a call that can take a step takes it.
SpecFloodLive == FloodInit /\ [][FloodNext]_vars /\ WF_vars(FloodNext)

\* flood_fill is called again with the same arguments on the grid the first
\* call's painter has changed.
CallAgain ==
    /\ fpc = "done"
    /\ fdest /= orig
    /\ fpc' = "start"
    /\ queue' = <<>>
    /\ visited' = [c \in FCells |-> "Unvisited"]
    /\ cursor' = 0
    /\ painted' = <<>>
    /\ fret' = None
    /\ orig' = fdest
    /\ compared' = FALSE
    /\ enqueued' = <<>>
    /\ dequeued' = 0
    /\ lateCompare' = FALSE
    /\ UNCHANGED <<fwidth, fheight, fdest, fpos, fneigh, comparer>>
    /\ UNCHANGED <<pathVars, callVars>>

FloodTwiceNext == FloodBegin \/ DiscoverStep \/ PaintStep \/ CallAgain

SpecFloodTwice == FloodInit /\ [][FloodTwiceNext]_vars

\* ------------------------------------------------ generate_points_on
\* Longest side of a grid whose neighbours are generated.
MaxSideN == 4

\* A call of generate_points_on(v, pos, width, height) with v empty, for a cell
\* pos of a grid of width >= 1 and height >= 1.
NeighboursInit ==
    /\ call = "generate_points_on"
    /\ args \in {a \in [self : {"Adjacent", "Bordering"},
                        pos : (0..(MaxSideN - 1)) \X (0..(MaxSideN - 1)),
                        width : 1..MaxSideN, height : 1..MaxSideN] :
                    a.pos \in CellsOf(a.width, a.height)}
    /\ output = None
    /\ PathIdle
    /\ FloodIdle

\* The call: `v` holds the points pushed, in push order.
Generate ==
    /\ call = "generate_points_on"
    /\ output = None
    /\ output' = Some(GeneratePointsOn(args.self, args.pos, args.width, args.height))
    /\ UNCHANGED <<call, args, pathVars, floodVars>>

SpecNeighbours == NeighboursInit /\ [][Generate]_vars

\* -------------------------------------------------------- normalize
\* Largest magnitude of a cost value that normalize is applied to.
MaxMag == 4
Floats ==
    [category : {"Nan", "Infinite"}, negative : BOOLEAN, mag : {0}]
    \cup [category : {"Zero"}, negative : BOOLEAN, mag : {0}]
    \cup [category : {"Subnormal", "Normal"}, negative : BOOLEAN, mag : 1..MaxMag]
FloatTypes == {"f32", "f64"}
UnsignedTypes == {"u16", "u32", "u64", "u128", "usize"}

\* A call of value.normalize() for a value of one of the implementing types.
NormalizeInit ==
    /\ call = "normalize"
    /\ args \in [type : FloatTypes, self : Floats]
                \cup [type : UnsignedTypes, self : 0..MaxMag]
    /\ output = None
    /\ PathIdle
    /\ FloodIdle

\* The call: the implementation of the value's type is the one that runs.
NormalizeCall ==
    /\ call = "normalize"
    /\ output = None
    /\ output' = Some(IF args.type \in FloatTypes THEN NormalizeFloat(args.self)
                                                  ELSE Normalize(args.self))
    /\ UNCHANGED <<call, args, pathVars, floodVars>>

SpecNormalize == NormalizeInit /\ [][NormalizeCall]_vars

\* ------------------------------------------------ copy, clone_over, blend
\* Longest side of the source and of the destination of a copy; offsets and
\* extents of the rectangle go up to it as well.
MaxSideC == 2
CopyDims == ((1..MaxSideC) \X (1..MaxSideC)) \cup {<<0, 0>>}
Rects == [x : 0..MaxSideC, y : 0..MaxSideC, width : 0..MaxSideC, height : 0..MaxSideC]

\* The source holds a different value in every cell (10 * row + column); the
\* destination holds -1 everywhere.
SourceValue(c) == 10 * c[2] + c[1]
DestValue(c) == 0 - 1

\* The blender of clone_over, and the one blend is called with.
CloneBlender(src, dst) == src
TestBlender(src, dst) == src * 100 + dst
Blender(op, src, dst) == IF op = "clone_over" THEN CloneBlender(src, dst)
                                              ELSE TestBlender(src, dst)

\* The destination points (dx, dy) of the two nested loops, in loop order.
LoopPoints(from, to, sw, sh) ==
    LET ys == to[2]..(Min({to[2] + from.height, to[2] + sh}) - 1)
        xs == to[1]..(Min({to[1] + from.width, to[1] + sw}) - 1)
        nx == Cardinality(xs)
    IN  [k \in 1..(Cardinality(ys) * nx) |->
            <<to[1] + ((k - 1) % nx), to[2] + ((k - 1) \div nx)>>]

SourcePointNoOffset(d, from, to) == <<d[1] - to[1], d[2] - to[2]>>
\* (sx, sy) of the loop body for the destination point d.
SourcePoint(d, from, to) == <<d[1] - to[1] + from.x, d[2] - to[2] + from.y>>

\* One pass of the inner loop body.  Indexing a view outside its cells
\* panics; the destination keeps what was written before.
LoopBody(st, a, d) ==
    LET sp == SourcePoint(d, a.from, a.to)
    IN  IF st.ret = "panic" THEN st
        ELSE IF sp \notin CellsOf(a.source[1], a.source[2])
                \/ d \notin CellsOf(a.dest[1], a.dest[2])
        THEN [st EXCEPT !.ret = "panic"]
        ELSE IF a.op = "copy"
        THEN [st EXCEPT !.grid[d] = SourceValue(sp)]
        ELSE [st EXCEPT !.grid[d] = Blender(a.op, SourceValue(sp), st.grid[d]),
                        !.calls = Append(st.calls, <<sp, d>>)]

RECURSIVE RunLoops(_, _, _, _)
RunLoops(st, a, pts, k) ==
    IF k > Len(pts) THEN st
    ELSE LET nxt == CHOOSE r \in {LoopBody(st, a, pts[k])} : TRUE
         IN  RunLoops(nxt, a, pts, k + 1)

\* copy / blend (clone_over is blend with the cloning blender): the returned
\* value, the destination afterwards and the blender calls made, in order.
Blend(a) ==
    LET st0 == [ret |-> "Ok", calls |-> <<>>,
                grid |-> [c \in CellsOf(a.dest[1], a.dest[2]) |-> DestValue(c)]]
    IN  IF \/ a.from.x >= a.source[1] \/ a.from.y >= a.source[2]
           \/ a.to[1] >= a.dest[1] \/ a.to[2] >= a.dest[2]
        THEN [st0 EXCEPT !.ret = "OutOfBounds"]
        ELSE RunLoops(st0, a, LoopPoints(a.from, a.to, a.source[1], a.source[2]), 1)

\* A call of copy / clone_over / blend(source, dest, from, to).
CopyInit ==
    /\ call \in {"copy", "clone_over", "blend"}
    /\ args \in [op : {call}, source : CopyDims, dest : CopyDims, from : Rects,
                 to : (0..MaxSideC) \X (0..MaxSideC)]
    /\ output = None
    /\ PathIdle
    /\ FloodIdle

CopyCall ==
    /\ call \in {"copy", "clone_over", "blend"}
    /\ output = None
    /\ output' = Some(Blend(args))
    /\ UNCHANGED <<call, args, pathVars, floodVars>>

SpecCopy == CopyInit /\ [][CopyCall]_vars

\* ============================================================ properties
\* Fewest steps from a cell of `frontier` (k steps from start) to the destination.
RECURSIVE BfsSteps(_, _, _)
BfsSteps(frontier, seen, k) ==
    IF Unwrap(dest) \in frontier THEN Some(k)
    ELSE IF frontier = {} THEN None
    ELSE LET next == {b \in Cells \ seen : \E a \in frontier : HasEdge(a, b)}
         IN  BfsSteps(next, seen \cup next, k + 1)
BfsDistance == BfsSteps({start}, {start}, 0)

\* Every move the cost closure allows costs exactly 1.
UnitCosts == \A a \in Cells, b \in Cells : HasEdge(a, b) => EdgeW(a, b) = 1

\* C1: on a grid whose allowed moves all cost 1, pathfind_to_dest to a
\* destination reachable from start returns ShortestPathFound(c) with c the
\* breadth-first (fewest-steps) distance from start to the destination.
C1_UnitCostIsBfsDistance ==
    (pc = "done" /\ mode = "dest" /\ UnitCosts /\ IsSome(BfsDistance))
        => result = ShortestPathFound(Unwrap(BfsDistance))
C1_Witness ==
    /\ pc = "done" /\ mode = "dest" /\ UnitCosts
    /\ IsSome(BfsDistance) /\ Unwrap(BfsDistance) >= 2
    /\ result = ShortestPathFound(Unwrap(BfsDistance))
    /\ \E c \in Cells : view[c] = Wall

\* The heuristic never exceeds the true remaining cost to the destination
\* (on the cells it was asked about; an unreachable destination bounds nothing).
Admissible ==
    LET R == RemCosts
    IN  \A n \in Cells : (IsSome(heur[n]) /\ IsSome(CostIn(R, n)))
                             => Unwrap(heur[n]) <= Unwrap(CostIn(R, n))
\* The heuristic drops by more than the cost of some move (it is not consistent).
Inconsistent ==
    \E a \in Cells, b \in Cells :
        /\ HasEdge(a, b) /\ IsSome(heur[a]) /\ IsSome(heur[b])
        /\ Unwrap(heur[a]) > EdgeW(a, b) + Unwrap(heur[b])

\* C2: with an admissible heuristic (consistent or not) pathfind_to_dest_heuristic
\* returns the same outcome, path cost included, as pathfind_to_dest returned
\* for the same grid, start, destination and cost function.
C2_AdmissibleAStarEqualsDijkstra ==
    (pc = "done" /\ mode = "heuristic" /\ Admissible) => Some(result) = prev
C2_Witness ==
    /\ pc = "done" /\ mode = "heuristic" /\ Admissible /\ Inconsistent
    /\ IsFound(result) /\ result[2] >= 2 /\ Some(result) = prev

\* C3: pathfind_to_whole has outcome MultipleDestinations, and when it returns
\* every cell reachable from start has cost Some(least path cost) while every
\* other cell has cost None and origin None.
C3_WholeIsLeastCostTable ==
    /\ (mode = "whole" /\ allocated) => result = MultipleDestinations
    /\ (mode = "whole" /\ pc = "done") =>
          /\ ret = Ok
          /\ LET M == MinCosts
             IN  \A c \in Cells :
                    /\ tiles[c].cost = CostIn(M, c)
                    /\ CostIn(M, c) = None => tiles[c].origin = None
C3_Witness ==
    /\ mode = "whole" /\ pc = "done" /\ result = MultipleDestinations
    /\ \E c \in Cells : tiles[c].cost = None
    /\ \E c \in Cells : IsSome(tiles[c].cost) /\ Unwrap(tiles[c].cost) >= 2
                        /\ tiles[c].cost = CostIn(MinCosts, c)

\* C4: in both single-destination modes, whatever the heuristic, the outcome is
\* ShortestPathFound(c) exactly when the destination is reachable from start
\* and PathNotFound otherwise; when found, c is the destination tile's cost.
C4_FoundIffReachable ==
    (pc = "done" /\ mode \in {"dest", "heuristic"}) =>
        /\ IsFound(result) <=> IsSome(CostIn(MinCosts, Unwrap(dest)))
        /\ ~IsFound(result) => result = PathNotFound
        /\ IsFound(result) => tiles[Unwrap(dest)].cost = Some(result[2])
\* A heuristic that overestimates led to a path that is not the cheapest.
C4_Witness ==
    /\ pc = "done" /\ mode = "heuristic" /\ ~Admissible
    /\ IsFound(result) /\ result[2] > Unwrap(CostIn(MinCosts, Unwrap(dest)))
    /\ tiles[Unwrap(dest)].cost = Some(result[2])

\* The chain of recorded predecessors from c reaches start without revisiting
\* a cell, each step being a move the policy and the cost closure allow.
RECURSIVE ChainReachesStart(_, _)
ChainReachesStart(c, seen) ==
    IF c = start THEN TRUE
    ELSE IF c \in seen \/ tiles[c].origin = None THEN FALSE
    ELSE LET o == Unwrap(tiles[c].origin)
         IN  /\ InBounds(o)
             /\ IsNeighbour(neighbouring, o, c)
             /\ HasEdge(o, c)
             /\ ChainReachesStart(o, seen \cup {c})
\* Sum of the edge costs along the chain of predecessors from start to c.
RECURSIVE ChainCost(_)
ChainCost(c) ==
    IF c = start THEN 0
    ELSE EdgeW(Unwrap(tiles[c].origin), c) + ChainCost(Unwrap(tiles[c].origin))
\* The cells of the chain of predecessors from c back to start, both included.
RECURSIVE ChainCells(_, _)
ChainCells(c, fuel) ==
    IF c = start \/ fuel = 0 \/ tiles[c].origin = None THEN {c}
    ELSE {c} \cup ChainCells(Unwrap(tiles[c].origin), fuel - 1)
Marked == {c \in Cells : tiles[c].in_shortest_path}

\* C5: when the outcome is ShortestPathFound(c), the chain of predecessors of
\* every cell marked in_shortest_path reaches start in finitely many steps
\* without revisiting a cell, each step between policy-neighbours, and the edge
\* costs along the chain from start to the destination sum to c.
C5_PathChainSumsToCost ==
    (pc = "done" /\ IsFound(result)) =>
        /\ \A c \in Marked : ChainReachesStart(c, {})
        /\ ChainCost(Unwrap(dest)) = result[2]
\* An overestimating heuristic led to a path of 2 moves or more that is not the
\* cheapest: its chain still reaches start and sums to the reported cost.
C5_Witness ==
    /\ pc = "done" /\ IsFound(result) /\ mode = "heuristic"
    /\ Cardinality(Marked) >= 3
    /\ result[2] > Unwrap(CostIn(MinCosts, Unwrap(dest)))
    /\ \A c \in Marked : ChainReachesStart(c, {})
    /\ ChainCost(Unwrap(dest)) = result[2]

\* C6: in_shortest_path is set on exactly the cells of the predecessor chain
\* from the destination back to start (both ends included) when the outcome is
\* ShortestPathFound, and on no cell when it is PathNotFound or
\* MultipleDestinations.
C6_MarkedIsExactlyTheChain ==
    (pc = "done" /\ ret = Ok) =>
        IF IsFound(result)
        THEN /\ Marked = ChainCells(Unwrap(dest), Cardinality(Cells))
             /\ start \in Marked /\ Unwrap(dest) \in Marked
        ELSE /\ result \in {PathNotFound, MultipleDestinations}
             /\ Marked = {}
C6_Witness ==
    /\ pc = "done" /\ IsFound(result)
    /\ Cardinality(Marked) >= 3 /\ Marked /= Cells
    /\ Marked = ChainCells(Unwrap(dest), Cardinality(Cells))

\* C7: a start outside the grid, or a given destination outside the grid, makes
\* the call return Err(OutOfBounds) with the heap never seeded, the cost
\* function and the heuristic never called and no result table built; calls
\* with both inside do not fail.
C7_OutOfBoundsFailsFirst ==
    /\ (OutOfBoundsCall /\ pc /= "start") =>
          /\ pc = "err" /\ ret = ErrOutOfBounds
          /\ BagToSet(adiacent) = {} /\ ~allocated /\ ~costCalled
          /\ \A c \in Cells : heur[c] = None
    /\ ~OutOfBoundsCall => ret /= ErrOutOfBounds /\ pc /= "err"
C7_Witness ==
    /\ pc = "err" /\ ret = ErrOutOfBounds /\ mode = "heuristic"
    /\ InBounds(start) /\ IsSome(dest) /\ ~InBounds(Unwrap(dest))
    /\ ~allocated /\ BagToSet(adiacent) = {}

\* ------------------------------------------------------------ flood_fill
PaintCells == {c \in FCells : visited[c] = "Paint"}

\* C8: flood_fill returns the number of cells that were painted, the seed
\* included (the number of cells whose final state is Paint, which is the
\* number of painter calls).
C8_ReturnsPaintedCount ==
    fpc = "done" => fret = <<"Ok", Cardinality(PaintCells)>>

\* The cells reachable from the seed by steps from a reached cell to a
\* policy-neighbour that the comparer accepts, on the grid as it was at the call.
Accepts(c, n) ==
    IsNeighbour(fneigh, c, n) /\ Comparer(orig[fpos], orig[c], orig[n])
RECURSIVE Grow(_)
Grow(R) ==
    LET more == {n \in FCells \ R : \E c \in R : Accepts(c, n)}
    IN  IF more = {} THEN R
        ELSE UNION {Grow(next) : next \in {R \cup more}}
Component == Grow({fpos})

\* C9: the cells flood_fill marks Paint are exactly the maximal set of cells
\* reachable from the seed by steps the comparer accepts, for every comparer,
\* those that look at the current cell's value included.
C9_PaintIsTheComponent ==
    fpc \in {"paint", "done"} => PaintCells = Component

\* C10: every comparer call comes before the first painter call: no cell is
\* changed while the discovery queue is not empty, so each comparer call sees
\* the values the grid had when flood_fill was called.
C10_ComparerBeforePainter ==
    /\ ~lateCompare
    /\ painted /= <<>> => (queue = <<>> /\ fpc \in {"paint", "done"})
    /\ fpc \in {"start", "discover"} => fdest = orig
C10_Witness ==
    /\ fpc = "done" /\ Len(painted) >= 2 /\ ~lateCompare
    /\ \E c \in FCells : visited[c] = "Border"
    /\ \E c \in FCells : fdest[c] /= orig[c]

\* C11: a seed with x >= width or y >= height (every seed on the empty grid
\* included) makes flood_fill return Err(OutOfBounds) with the comparer and the
\* painter never called and every cell of the grid unchanged.
C11_FloodOutOfBoundsFails ==
    ((fpos[1] >= fwidth \/ fpos[2] >= fheight) /\ fpc \notin {"idle", "start"}) =>
        /\ fpc = "err" /\ fret = ErrOutOfBounds
        /\ ~compared /\ painted = <<>> /\ fdest = orig
        /\ queue = <<>> /\ enqueued = <<>>
C11_Witness ==
    /\ fpc = "err" /\ fret = ErrOutOfBounds
    /\ fwidth >= 1 /\ fheight >= 1 /\ fpos[1] < fwidth /\ fpos[2] >= fheight
    /\ ~compared /\ painted = <<>> /\ fdest = orig

\* What holds of the queue all through a call of flood_fill.
QueueDiscipline ==
    fpc /= "idle" =>
        /\ \A i \in 1..Len(enqueued) : visited[enqueued[i]] = "Paint"
        /\ \A i \in 1..Len(enqueued), j \in 1..Len(enqueued) :
                enqueued[i] = enqueued[j] => i = j
        /\ \A i \in 1..Len(queue) : visited[queue[i]] = "Paint"
        /\ dequeued + Len(queue) = Len(enqueued)
        /\ dequeued <= fwidth * fheight
\* A cell that has left Unvisited keeps its state.
StateSetOnce ==
    \A c \in FCells : visited[c] /= "Unvisited" => visited'[c] = visited[c]

\* C12: the discovery of flood_fill terminates: a cell changes state at most
\* once (Unvisited to Paint or to Border, then never again), only Paint cells
\* are enqueued, each at most once, so at most width*height cells are dequeued
\* and the discovery loop is left.
C12_DiscoveryTerminates ==
    /\ []QueueDiscipline
    /\ [][StateSetOnce]_vars
    /\ <>(fpc \in {"err", "paint", "done"})
C12_Witness ==
    /\ fpc = "paint" /\ queue = <<>>
    /\ dequeued = Len(enqueued) /\ dequeued >= 3 /\ dequeued < fwidth * fheight
    /\ \E c \in FCells : visited[c] = "Border"

\* ------------------------------------------------------------ pathfinding
\* The pop loop of pathfind_core has been left (or was never entered).
LoopLeft == pc \in {"err", "break", "reconstruct", "done"}

\* No recorded cost exceeds this: a generous cap on the cost of a walk that
\* the search can record on grids of the sizes explored.
CostCap == 2 * MaxCells * (MaxCost + MaxHeight * MaxHeight)
\* A number that every pop makes smaller: a stale pop shortens the heap, any
\* other pop lowers the popped cell's recorded cost and pushes at most 8 entries.
Rank(tile) == IF tile.cost = None THEN CostCap + 1 ELSE Unwrap(tile.cost)
RECURSIVE SumRank(_)
SumRank(S) ==
    IF S = {} THEN 0
    ELSE LET c == CHOOSE x \in S : TRUE IN Rank(tiles[c]) + SumRank(S \ {c})
Measure == 9 * SumRank(Cells) + BagCardinality(adiacent)
PopLowersMeasure ==
    (pc = "loop" /\ pc' \in {"loop", "break"}) =>
        /\ Measure' < Measure
        /\ Measure' >= 0
        /\ \A c \in Cells : Rank(tiles'[c]) <= CostCap + 1

\* C13: with an unsigned integer cost type, whatever the cost function and the
\* heuristic (admissible or not), every search terminates: each pop lowers a
\* natural number and the loop can always take its next step, so after
\* finitely many pops the heap is empty or the destination is finalized.
C13_SearchTerminates ==
    /\ [][PopLowersMeasure]_vars
    /\ [](~LoopLeft /\ pc /= "start" => ENABLED (PopStep \/ ExitLoop))
C13_Witness ==
    /\ pc = "done" /\ ret = Ok /\ mode = "heuristic" /\ result = PathNotFound
    /\ BagToSet(adiacent) = {}
    /\ \E c \in Cells : IsSome(heur[c]) /\ Unwrap(heur[c]) = MaxHeur
    /\ \E a \in Cells, b \in Cells : HasEdge(a, b) /\ EdgeW(a, b) = 0

\* ------------------------------------------------ generate_points_on
\* C14: for a cell of a grid with width >= 1 and height >= 1, the points
\* generate_points_on produces are, without duplicates, exactly the cells of
\* the grid one step from it, orthogonally (Adjacent) or also diagonally
\* (Bordering): none lies outside the grid and the cell itself is not produced.
C14_NeighboursAreTheCellsOneStepAway ==
    (call = "generate_points_on" /\ IsSome(output)) =>
        LET v == Unwrap(output)
        IN  /\ \A i \in 1..Len(v), j \in 1..Len(v) : v[i] = v[j] => i = j
            /\ Range(v) = {c \in CellsOf(args.width, args.height) :
                              IsNeighbour(args.self, args.pos, c)}
            /\ args.pos \notin Range(v)
C14_Witness ==
    /\ call = "generate_points_on" /\ IsSome(output)
    /\ args.self = "Bordering" /\ args.width = 3 /\ args.height = 2 /\ args.pos = <<1, 0>>
    /\ Range(Unwrap(output)) = {<<0, 0>>, <<2, 0>>, <<0, 1>>, <<1, 1>>, <<2, 1>>}

\* The cell is a corner of the grid; it is on an edge of the grid without
\* being a corner.
AtCorner == args.pos[1] \in {0, args.width - 1} /\ args.pos[2] \in {0, args.height - 1}
AtEdge == (args.pos[1] \in {0, args.width - 1} \/ args.pos[2] \in {0, args.height - 1})
          /\ ~AtCorner
NeighbourCounts ==
    LET n == Len(Unwrap(output))
    IN  /\ AtCorner => n = (IF args.self = "Adjacent" THEN 2 ELSE 3)
        /\ AtEdge => n = (IF args.self = "Adjacent" THEN 3 ELSE 5)

\* C15 as stated: at a corner of the grid 2 neighbours are generated for
\* Adjacent and 3 for Bordering; at an edge cell that is not a corner, 3 and 5.
C15_CornerAndEdgeCounts ==
    (call = "generate_points_on" /\ IsSome(output)) => NeighbourCounts
\* C15 amended: the counts hold on grids at least 2 wide and 2 high.
C15_CornerAndEdgeCountsFrom2x2 ==
    (call = "generate_points_on" /\ IsSome(output) /\ args.width >= 2 /\ args.height >= 2)
        => NeighbourCounts
C15_Witness ==
    /\ call = "generate_points_on" /\ IsSome(output)
    /\ args.self = "Bordering" /\ args.width = 2 /\ args.height = 3 /\ args.pos = <<0, 1>>
    /\ AtEdge /\ Len(Unwrap(output)) = 5

\* -------------------------------------------------------- normalize
\* C17: normalize for f32 and f64 returns None for NaN, for both infinities
\* and for every negative non-zero value, Some(+0) for positive and for
\* negative zero, and Some(v) for every other (positive finite) v; normalize
\* for u16, u32, u64, u128 and usize returns Some(v) for every v.
C17_NormalizeByCases ==
    (call = "normalize" /\ IsSome(output)) =>
        LET v == args.self
            r == Unwrap(output)
        IN  IF args.type \in UnsignedTypes THEN r = Some(v)
            ELSE /\ v.category = "Nan" => r = None
                 /\ v.category = "Infinite" => r = None
                 /\ (v.category \in {"Subnormal", "Normal"} /\ v.negative) => r = None
                 /\ v.category = "Zero" =>
                        r = Some([category |-> "Zero", negative |-> FALSE, mag |-> 0])
                 /\ (v.category \in {"Subnormal", "Normal"} /\ ~v.negative) => r = Some(v)
C17_Witness ==
    /\ call = "normalize" /\ args.type = "f64"
    /\ args.self = [category |-> "Zero", negative |-> TRUE, mag |-> 0]
    /\ output = Some(Some([category |-> "Zero", negative |-> FALSE, mag |-> 0]))

\* ------------------------------------------------------------ pathfinding
\* C16: an edge whose cost value normalize rejects is handled as an edge for
\* which the cost function returns None: the search sees the same edge costs,
\* uses no rejected edge, returns Ok and ends with the outcome and the tile
\* costs of the search in which those edges return None.
C16_RejectedIsNoEdge ==
    costKind = "reject" =>
        /\ \A p \in Cells, n \in Cells :
              IsNeighbour(neighbouring, p, n) => EdgeCost(p, n) = EdgeCostOf("enter", p, n)
        /\ \A e \in BagToSet(adiacent) :
              e.position = e.origin \/ HasEdge(e.origin, e.position)
        /\ \A c \in Cells :
              /\ IsSome(tiles[c].origin) =>
                    (c = start \/ HasEdge(Unwrap(tiles[c].origin), c))
              /\ IsSome(tiles[c].cost) =>
                    /\ IsSome(CostIn(MinCosts, c))
                    /\ Unwrap(tiles[c].cost) >= Unwrap(CostIn(MinCosts, c))
        /\ pc /= "err" /\ ret /= ErrOutOfBounds
        /\ pc = "done" =>
              /\ ret = Ok
              /\ mode = "whole" =>
                    /\ result = MultipleDestinations
                    /\ \A c \in Cells : tiles[c].cost = CostIn(MinCosts, c)
              /\ mode = "dest" =>
                    result = IF IsSome(CostIn(MinCosts, Unwrap(dest)))
                             THEN ShortestPathFound(Unwrap(CostIn(MinCosts, Unwrap(dest))))
                             ELSE PathNotFound
C16_Witness ==
    /\ costKind = "reject" /\ pc = "done" /\ mode = "whole" /\ ret = Ok
    /\ \E c \in Cells : view[c] = Wall /\ c[1] = 0 /\ tiles[c].cost = None
                        /\ IsNeighbour(neighbouring, start, c)
    /\ \E c \in Cells : view[c] = Wall /\ c[1] > 0 /\ c[2] = 0 /\ tiles[c].cost = None
    /\ \E c \in Cells : IsSome(tiles[c].cost) /\ Unwrap(tiles[c].cost) >= 1

\* The output the module documentation shows for its example, row by row,
\* without the first '#' of each row (42 is '*'), and the cells it draws as
\* part of the route: the '*' cells, S and D.
DocOutput ==
    <<<<35, 35, 35, 35, 35, 35, 35, 35, 35>>,
      <<35, 42, 42, 83, 35, 42, 42, 42, 35>>,
      <<35, 42, 35, 35, 35, 42, 35, 42, 35>>,
      <<35, 42, 42, 42, 42, 42, 35, 42, 35>>,
      <<35, 32, 35, 35, 35, 32, 35, 42, 35>>,
      <<35, 32, 32, 32, 35, 32, 35, 68, 35>>,
      <<35, 35, 35, 35, 35, 35, 35, 35, 35>>>>
DocRoute ==
    {c \in CellsOf(DocWidth, DocHeight) : DocOutput[c[2] + 1][c[1] + 1] \in {42, 83, 68}}

\* C18: on the 9x7 map of the module documentation (S at (3,1), D at (7,5),
\* walls '#', every other cell costing 1 to enter, Adjacent) pathfind_to_dest
\* returns ShortestPathFound(16) and marks exactly the 17 cells of the route
\* of the documented output.
C18_DocExample ==
    costKind = "unit" =>
        /\ start = <<3, 1>> /\ dest = Some(<<7, 5>>) /\ width = 9 /\ height = 7
        /\ Cardinality(DocRoute) = 17
        /\ pc = "done" =>
              /\ ret = Ok
              /\ result = ShortestPathFound(16)
              /\ Marked = DocRoute
C18_Witness ==
    /\ costKind = "unit" /\ pc = "done" /\ ret = Ok
    /\ result = ShortestPathFound(16)
    /\ Cardinality(Marked) = 17 /\ <<1, 3>> \in Marked /\ <<5, 1>> \in Marked
    /\ IsSome(tiles[<<5, 5>>].cost) /\ ~tiles[<<5, 5>>].in_shortest_path


\* C19: when the rectangle `from` lies inside the source and the rectangle of
\* the same size placed at `to` lies inside the destination, copy and
\* clone_over leave source[(from.x+i, from.y+j)] in dest[(to.x+i, to.y+j)] for
\* every i < from.width and j < from.height, blend (and so clone_over) calls
\* the blender exactly once on each such pair of cells and on nothing else,
\* and every destination cell outside the rectangle keeps its value.
CopyReturned == call \in {"copy", "clone_over", "blend"} /\ IsSome(output)
RectsFit ==
    /\ args.from.x + args.from.width <= args.source[1]
    /\ args.from.y + args.from.height <= args.source[2]
    /\ args.to[1] + args.from.width <= args.dest[1]
    /\ args.to[2] + args.from.height <= args.dest[2]
Offsets == (0..(args.from.width - 1)) \X (0..(args.from.height - 1))
Target == {<<args.to[1] + o[1], args.to[2] + o[2]>> : o \in Offsets}
C19_CopyFillsTheRectangleOnly ==
    (CopyReturned /\ RectsFit) =>
        LET out == Unwrap(output)
            src(o) == <<args.from.x + o[1], args.from.y + o[2]>>
            dst(o) == <<args.to[1] + o[1], args.to[2] + o[2]>>
        IN  /\ out.ret /= "panic"
            /\ DOMAIN out.grid = CellsOf(args.dest[1], args.dest[2])
            /\ call \in {"copy", "clone_over"} =>
                   \A o \in Offsets : out.grid[dst(o)] = SourceValue(src(o))
            /\ call \in {"clone_over", "blend"} =>
                   /\ Len(out.calls) = Cardinality(Offsets)
                   /\ \A o \in Offsets :
                          Cardinality({k \in 1..Len(out.calls) :
                                          out.calls[k] = <<src(o), dst(o)>>}) = 1
            /\ \A c \in DOMAIN out.grid \ Target : out.grid[c] = DestValue(c)
C19_Witness ==
    /\ CopyReturned /\ RectsFit
    /\ call = "blend"
    /\ args.source = <<2, 2>> /\ args.dest = <<2, 2>>
    /\ args.from = [x |-> 1, y |-> 0, width |-> 1, height |-> 2]
    /\ args.to = <<0, 0>>
    /\ Len(Unwrap(output).calls) = 2
    /\ Unwrap(output).grid[<<0, 1>>] = TestBlender(SourceValue(<<1, 1>>), DestValue(<<0, 1>>))
    /\ Unwrap(output).grid[<<1, 1>>] = DestValue(<<1, 1>>)

\* C20: finalized cells are never reopened: once a pop has recorded a cost
\* and a predecessor for a cell, no later pop overwrites that cell's cost or
\* predecessor.
KeepsRecord(c) ==
    tiles'[c].cost = tiles[c].cost /\ tiles'[c].origin = tiles[c].origin
C20_FinalizedNeverReopened ==
    [][pc = "loop" => \A c \in Cells : IsSome(tiles[c].cost) => KeepsRecord(c)]_vars

\* C20 as the code has it: a pop overwrites the cost recorded for a cell only
\* with a strictly lower cost, and in pathfind_to_dest (the heuristic is zero)
\* no pop overwrites a recorded cost or predecessor.
LowersRecord(c) ==
    /\ mode = "heuristic"
    /\ IsSome(tiles'[c].cost)
    /\ Unwrap(tiles'[c].cost) < Unwrap(tiles[c].cost)
C20_ReopenedOnlyForLowerCost ==
    [][pc = "loop" => \A c \in Cells :
          IsSome(tiles[c].cost) => (KeepsRecord(c) \/ LowersRecord(c))]_vars
\* An entry of the heap pushed while its origin had a higher cost than the one
\* now recorded for it: the origin has been finalized twice.
PushedBeforeReopening(e) ==
    /\ e.origin /= e.position
    /\ IsSome(tiles[e.origin].cost)
    /\ IsSome(EdgeCost(e.origin, e.position))
    /\ e.actual_cost > Unwrap(tiles[e.origin].cost) + Unwrap(EdgeCost(e.origin, e.position))
C20_Witness ==
    /\ pc = "loop" /\ mode = "heuristic"
    /\ \E e \in BagToSet(adiacent) : PushedBeforeReopening(e)

\* C21: during expansion an entry is pushed for a neighbour only if the
\* neighbour has no recorded cost or the entry's total (the current cell's
\* accumulated cost plus the edge cost) is strictly less than the cost
\* recorded for that neighbour: no entry is pushed whose actual cost is
\* greater than or equal to the neighbour's recorded cost.
PushedNow(e) == CopiesIn(e, adiacent') > CopiesIn(e, adiacent)
ImprovesRecord(e) ==
    \/ tiles'[e.position].cost = None
    \/ e.actual_cost < Unwrap(tiles'[e.position].cost)
C21_PushOnlyIfTotalImproves ==
    [][pc = "loop" => \A e \in BagToSet(adiacent') : PushedNow(e) => ImprovesRecord(e)]_vars

\* C22: in the single-destination modes the search stops at the first pop
\* that finalizes the destination: that pop removes one entry for the
\* destination from the heap, pushes nothing, calls neither the cost function
\* nor the heuristic, and reports that entry's actual cost; afterwards the
\* heap, the result and every tile's cost and predecessor stay as they are.
DestFinal == allocated /\ IsSome(dest) /\ IsSome(tiles[Unwrap(dest)].cost)
StoppedAtDest ==
    DestFinal =>
        /\ adiacent' = adiacent /\ result' = result
        /\ costCalled' = costCalled /\ heur' = heur
        /\ \A c \in Cells : KeepsRecord(c)
PopOfDest ==
    (allocated /\ IsSome(dest) /\ ~DestFinal /\ DestFinal') =>
        \E e \in BagToSet(adiacent) :
            /\ e.position = Unwrap(dest)
            /\ adiacent' = adiacent (-) SetToBag({e})
            /\ result' = ShortestPathFound(e.actual_cost)
            /\ tiles'[Unwrap(dest)].cost = Some(e.actual_cost)
            /\ costCalled' = costCalled /\ heur' = heur
            /\ \A c \in Cells \ {Unwrap(dest)} : KeepsRecord(c)
C22_StopsAtFirstDestPop == [][StoppedAtDest /\ PopOfDest]_vars
C22_Witness ==
    /\ pc = "done" /\ DestFinal /\ Unwrap(dest) /= start
    /\ BagToSet(adiacent) /= {}
    /\ \E n \in Cells : /\ HasEdge(Unwrap(dest), n)
                        /\ tiles[n].cost = None

\* C23: the painter is invoked only for cells in state Paint and never twice
\* for the same cell; when flood_fill has returned Ok it has been invoked
\* exactly once for each Paint cell, which then holds the painted value, and
\* every Border and Unvisited cell holds its original value.
TimesPainted(c) == Cardinality({k \in 1..Len(painted) : painted[k] = c})
C23_PainterOncePerPaintCell ==
    (fpc \in {"discover", "paint", "done"}) =>
        \A c \in FCells :
            /\ TimesPainted(c) <= 1
            /\ visited[c] /= "Paint" => TimesPainted(c) = 0 /\ fdest[c] = orig[c]
            /\ (fpc = "done" /\ visited[c] = "Paint") =>
                   TimesPainted(c) = 1 /\ fdest[c] = Painter(orig[c], c)
C23_Witness ==
    /\ fpc = "done"
    /\ \E a \in FCells, b \in FCells :
           a /= b /\ visited[a] = "Paint" /\ visited[b] = "Paint"
    /\ \E c \in FCells : visited[c] = "Border" /\ orig[c] /= PaintValue
    /\ Len(painted) = 2

\* The discovery loop of flood_fill run from the seed on the original grid,
\* with each cell's neighbours taken in the opposite order.
RECURSIVE DiscoverReversed(_)
DiscoverReversed(st) ==
    IF st.queue = <<>> THEN st
    ELSE LET point == Head(st.queue)
             next == CHOOSE r \in {ExamineAll([st EXCEPT !.queue = Tail(@)], point,
                                      Reverse(PopOrder(fneigh, point, fwidth, fheight)), 1)} : TRUE
         IN  DiscoverReversed(next)
PaintCellsReversed ==
    LET st == DiscoverReversed(
                [queue |-> <<fpos>>,
                 visited |-> [c \in FCells |-> IF c = fpos THEN "Paint" ELSE "Unvisited"],
                 grid |-> orig, painted |-> <<>>, enqueued |-> <<fpos>>,
                 compared |-> FALSE, late |-> FALSE])
    IN  {c \in FCells : st.visited[c] = "Paint"}

\* C24: the set of Paint cells does not depend on the order in which a cell's
\* neighbours are enumerated: the same grid, seed, policy and comparer with
\* the neighbours taken in the opposite order give the same set.
C24_PaintSetIgnoresNeighbourOrder ==
    fpc = "done" => PaintCells = PaintCellsReversed

\* C25: at every step of a search and in the returned table, a tile has a
\* cost exactly when it has an origin; the start tile, once popped, has cost
\* zero and origin start; every other tile with an origin has for origin a
\* policy-neighbour whose own recorded cost is no greater than the tile's.
TileConsistent(c) ==
    /\ IsSome(tiles[c].cost) <=> IsSome(tiles[c].origin)
    /\ (c = start /\ IsSome(tiles[c].cost)) =>
           tiles[c].cost = Some(0) /\ tiles[c].origin = Some(start)
    /\ (c /= start /\ IsSome(tiles[c].origin)) =>
           LET o == Unwrap(tiles[c].origin)
           IN  /\ o \in Cells
               /\ IsNeighbour(neighbouring, o, c)
               /\ IsSome(tiles[o].cost)
               /\ Unwrap(tiles[o].cost) <= Unwrap(tiles[c].cost)
C25_TilesAreConsistent ==
    allocated => \A c \in Cells : TileConsistent(c)
C25_Witness ==
    /\ pc = "done" /\ mode = "heuristic"
    /\ \E c \in Cells \ {start} :
           /\ IsSome(tiles[c].origin)
           /\ Unwrap(tiles[c].origin) /= start
           /\ Unwrap(tiles[Unwrap(tiles[c].origin)].cost) < Unwrap(tiles[c].cost)
    /\ \E c \in Cells : tiles[c].cost = None
    /\ \A c \in Cells : TileConsistent(c)

\* C26: in pathfind_to_dest and pathfind_to_whole (zero heuristic) with
\* non-negative integer costs, cells are finalized in non-decreasing order of
\* recorded cost, and the cost recorded when a cell is finalized is already
\* the minimum cost of a path from start to that cell.
ZeroHeuristic == mode \in {"dest", "whole"}
RecordedAreMinimal ==
    (ZeroHeuristic /\ allocated) =>
        \A c \in Cells : IsSome(tiles[c].cost) => tiles[c].cost = CostIn(MinCosts, c)
FinalizedInCostOrder ==
    (ZeroHeuristic /\ pc = "loop") =>
        \A c \in Cells : tiles'[c].cost /= tiles[c].cost =>
            /\ IsSome(tiles'[c].cost)
            /\ \A d \in Cells : IsSome(tiles[d].cost) =>
                   Unwrap(tiles[d].cost) <= Unwrap(tiles'[c].cost)
C26_FinalizedInOrderAtMinimum ==
    [][FinalizedInCostOrder]_vars /\ []RecordedAreMinimal
C26_Witness ==
    /\ ZeroHeuristic /\ pc = "done"
    /\ \E c \in Cells, d \in Cells :
           /\ tiles[c].cost = Some(1) /\ tiles[d].cost = Some(2)
           /\ tiles[d].origin = Some(c)
    /\ \A c \in Cells : IsSome(tiles[c].cost) => tiles[c].cost = CostIn(MinCosts, c)

\* C27: when start equals the destination (in bounds), pathfind_to_dest and
\* pathfind_to_dest_heuristic return ShortestPathFound(0) without calling the
\* cost function (or the heuristic); the start tile has cost 0, origin start and in_shortest_path
\* set, and every other tile is left at its default.
StartIsDest == dest = Some(start) /\ mode \in {"dest", "heuristic"} /\ InBounds(start)
C27_StartIsDestFoundAtOnce ==
    StartIsDest =>
        /\ ~costCalled
        /\ \A c \in Cells : heur[c] = None
        /\ pc = "done" =>
              /\ ret = Ok
              /\ result = ShortestPathFound(0)
              /\ tiles[start] = [origin |-> Some(start), cost |-> Some(0),
                                 in_shortest_path |-> TRUE]
              /\ \A c \in Cells \ {start} : tiles[c] = DefaultTile
C27_Witness ==
    /\ StartIsDest /\ pc = "done" /\ mode = "heuristic"
    /\ result = ShortestPathFound(0)
    /\ tiles[start].in_shortest_path
    /\ \E n \in Cells : HasEdge(start, n) /\ tiles[n] = DefaultTile

\* C28: every successful flood_fill marks the seed Paint and invokes the
\* painter on it, whatever the comparer returns: the seed's state is set
\* before the discovery, no examination (no comparer answer) changes it or
\* puts the seed in the queue a second time,
\* so at least one cell is painted in every successful call, also in a second
\* call made after the first call's painter changed the values.
SeedIsPaint ==
    /\ fpc \in {"discover", "paint", "done"} =>
          /\ visited[fpos] = "Paint"
          /\ {k \in 1..Len(enqueued) : enqueued[k] = fpos} = {1}
    /\ fpc = "done" =>
          /\ fret[1] = "Ok"
          /\ TimesPainted(fpos) = 1
          /\ fdest[fpos] = Painter(orig[fpos], fpos)
SeedNotExamined ==
    fpc = "discover" => visited'[fpos] = visited[fpos]
C28_SeedAlwaysPainted == []SeedIsPaint /\ [][SeedNotExamined]_vars
SecondCall == \E c \in FCells : orig[c] = PaintValue
C28_Witness ==
    /\ fpc = "done" /\ SecondCall
    /\ TimesPainted(fpos) = 1
    /\ \E c \in FCells : visited[c] = "Border"
    /\ \E c \in FCells : c /= fpos /\ orig[c] = PaintValue

\* C29: in pathfind_to_dest and pathfind_to_whole with an unsigned cost type
\* of CostBits bits, if the largest minimum path cost of a reachable cell plus
\* the largest edge cost is at most 2^CostBits - 1, no sum of an accumulated
\* cost and an edge cost that the engine forms exceeds 2^CostBits - 1: no
\* entry pushed and no cost recorded is beyond the range of the type.
CostTypeMax == 2^CostBits - 1
Max(S) == CHOOSE m \in S : \A o \in S : m >= o
LargestMinCost == Max({0} \cup {p[2] : p \in MinCosts})
LargestEdgeCost ==
    Max({0} \cup {EdgeW(ab[1], ab[2]) :
                      ab \in {p \in Cells \X Cells : HasEdge(p[1], p[2])}})
SumsFitPremise ==
    /\ ZeroHeuristic /\ allocated
    /\ LargestMinCost + LargestEdgeCost <= CostTypeMax
PushedFit ==
    (SumsFitPremise /\ pc = "loop") =>
        \A e \in BagToSet(adiacent') : PushedNow(e) =>
            e.actual_cost <= CostTypeMax /\ e.estimated_cost <= CostTypeMax
RecordedFit ==
    SumsFitPremise =>
        \A c \in Cells : IsSome(tiles[c].cost) => Unwrap(tiles[c].cost) <= CostTypeMax
C29_NoSumBeyondTheCostType == [][PushedFit]_vars /\ []RecordedFit
C29_Witness ==
    /\ SumsFitPremise /\ pc = "done"
    /\ LargestEdgeCost >= 1
    /\ \E c \in Cells : tiles[c].cost = Some(LargestMinCost) /\ LargestMinCost >= 2
    /\ \E e \in BagToSet(adiacent) : e.actual_cost >= 2

\* C30: copy and blend clip the rectangle to both views: whenever the origin
\* of `from` is inside the source and `to` is inside the destination, whatever
\* from.width and from.height are, the call returns Ok without indexing a
\* cell outside the source or the destination; otherwise it returns
\* Err(OutOfBounds) and the destination is unchanged.
OriginsInside ==
    /\ args.from.x < args.source[1] /\ args.from.y < args.source[2]
    /\ args.to[1] < args.dest[1] /\ args.to[2] < args.dest[2]
C30_CopyClipsToBothViews ==
    CopyReturned =>
        IF OriginsInside
        THEN Unwrap(output).ret = "Ok"
        ELSE /\ Unwrap(output).ret = "OutOfBounds"
             /\ \A c \in DOMAIN Unwrap(output).grid : Unwrap(output).grid[c] = DestValue(c)
====
